---- MODULE Spec2Model ----
(***************************************************************************)
(* A model of torch/_inductor/cxx_builder/cxx_builder.py: the build option *)
(* classes (BuildOptionsBase, CxxOptions, CxxTorchOptions,                 *)
(* CxxTorchCudaOptions), the command renderer and runner (CxxBuilder) and  *)
(* run_command_line.                                                       *)
(*                                                                         *)
(* Python strings are TLA+ strings; Python lists of strings are sequences  *)
(* of strings.  The seven lists of BuildOptionsBase are CLASS attributes:  *)
(* no __init__ ever assigns them on an instance, so every instance reads   *)
(* and mutates the same seven list objects.  They are the variable `lists`.*)
(***************************************************************************)
EXTENDS Integers, Sequences, FiniteSets, TLC

VARIABLES
    env,        \* facts of the host, fixed when the module is imported
    lists,      \* the seven class-level lists of BuildOptionsBase
    options,    \* the option-set constructor calls made so far, in order
    builders,   \* the CxxBuilder instances constructed so far, in order
    fs,         \* the directories that exist on the file system
    runs        \* the number of build() calls made so far

vars == <<env, lists, options, builders, fs, runs>>

\* ------------------------------------------------------------------ bounds

\* option sets composed in a run of the composer alone (SpecCompose)
MaxOptions == 2
\* option sets, builders and build() calls in a run of the whole program (Spec)
MaxBuildOptions == 1
MaxBuilders == 1
MaxRuns == 1
MaxOtherBuilders == 2

\* --------------------------------------------------------- string helpers

\* s[i:] of Python, 1-based: the suffix of s that starts at character i.
From(s, i) == SubSeq(s, i, Len(s))

\* s.startswith(p)
StartsWith(s, p) == Len(p) <= Len(s) /\ SubSeq(s, 1, Len(p)) = p

\* s.endswith(p)
EndsWith(s, p) == Len(p) <= Len(s) /\ SubSeq(s, Len(s) - Len(p) + 1, Len(s)) = p

\* p in s
Contains(s, p) == \E i \in 1..(Len(s) - Len(p) + 1) : SubSeq(s, i, i + Len(p) - 1) = p

\* item in dest_list
InList(item, list) == \E i \in 1..Len(list) : list[i] = item

\* sep.join(list)
RECURSIVE Join(_, _)
Join(list, sep) ==
    IF list = <<>> THEN ""
    ELSE IF Len(list) = 1 THEN list[1]
    ELSE list[1] \o sep \o Join(Tail(list), sep)

\* s.replace(a, b) for a single character a: every character of s that is a
\* becomes b (computed on the two halves of s).
RECURSIVE Replace(_, _, _)
Replace(s, a, b) ==
    IF Len(s) = 0 THEN s
    ELSE IF Len(s) = 1 THEN (IF s = a THEN b ELSE s)
    ELSE LET h == Len(s) \div 2
         IN  Replace(SubSeq(s, 1, h), a, b) \o Replace(From(s, h + 1), a, b)

RECURSIVE LastSep(_, _)
LastSep(p, i) ==
    IF i = 0 THEN 0
    ELSE IF SubSeq(p, i, i) \in {"/", "\\"} THEN i
    ELSE LastSep(p, i - 1)

\* os.path.dirname
Dirname(p) ==
    LET k == LastSep(p, Len(p))
    IN  IF k = 0 THEN "" ELSE IF k = 1 THEN SubSeq(p, 1, 1) ELSE SubSeq(p, 1, k - 1)

\* The directories mkdir(parents=True) makes sure exist: p and its ancestors.
RECURSIVE Ancestors(_)
Ancestors(p) ==
    IF p = "" \/ Dirname(p) = p THEN {}
    ELSE {p} \cup Ancestors(Dirname(p))

\* ------------------------------------------------------------ environment

\* The host facts the module reads: sys.platform (_IS_LINUX, _IS_MACOS,
\* _IS_WINDOWS), the host C++ compiler, config.is_fbcode(), platform.machine(),
\* the CUDA probes and the macOS OpenMP probes.
LinuxHost ==
    [platform |-> "linux", cxx |-> "g++", fbcode |-> FALSE, machine |-> "x86_64",
     cuda_arch |-> "80", cuda_cxx_exists |-> TRUE, CUDACXX_exists |-> FALSE,
     CUDA_HOME_exists |-> TRUE, apple_clang |-> FALSE, omp_prefix |-> "unset",
     conda |-> "unset", brew |-> FALSE]

Hosts ==
    { LinuxHost,
      [LinuxHost EXCEPT !.cxx = "clang++", !.cuda_arch = "90",
                        !.cuda_cxx_exists = FALSE, !.CUDACXX_exists = TRUE],
      [LinuxHost EXCEPT !.fbcode = TRUE, !.machine = "ppc64le", !.cxx = "clang++",
                        !.cuda_cxx_exists = FALSE],
      [LinuxHost EXCEPT !.machine = "ppc64le",
                        !.cuda_cxx_exists = FALSE, !.CUDA_HOME_exists = FALSE],
      [LinuxHost EXCEPT !.platform = "darwin", !.cxx = "clang++", !.machine = "arm64",
                        !.apple_clang = TRUE, !.brew = TRUE],
      [LinuxHost EXCEPT !.platform = "darwin", !.cxx = "clang++",
                        !.apple_clang = TRUE, !.omp_prefix = "invalid",
                        !.conda = "present_iomp5"],
      [LinuxHost EXCEPT !.platform = "darwin", !.cxx = "g++", !.omp_prefix = "valid"],
      [LinuxHost EXCEPT !.platform = "win32", !.cxx = "cl", !.machine = "AMD64"] }

\* sys.platform.startswith("linux"), .startswith("darwin"), == "win32"
_IS_LINUX == StartsWith(env.platform, "linux")
_IS_MACOS == StartsWith(env.platform, "darwin")
_IS_WINDOWS == env.platform = "win32"

\* os.sep
Sep == IF _IS_WINDOWS THEN "\\" ELSE "/"

\* os.path.join(a, b): b alone when it is absolute or a is empty, no second
\* separator when a already ends with one.
PathJoin(a, b) ==
    IF StartsWith(b, Sep) \/ a = "" THEN b
    ELSE IF EndsWith(a, Sep) \/ EndsWith(a, "/") THEN a \o b
    ELSE a \o Sep \o b

\* Values the module takes from its collaborators.
TORCH_PATH == IF _IS_WINDOWS THEN "C:\\torch" ELSE "/torch"
TORCH_LIB_PATH == PathJoin(TORCH_PATH, "lib")
PythonPrefix == IF _IS_WINDOWS THEN "C:\\py" ELSE "/py"
CutlassDir == "/cutlass"
CudaHome == "/cuda"
OmpPrefix == "/omp"
CondaPrefix == "/conda"
HomebrewLibomp == "/brew/libomp"
ChosenIsa == "avx2"
ChosenIsaCap == "AVX2"
ChosenIsaArchFlags == "-mavx2 -mfma"
CompileOptLevel == "-O1"
ModuleDir == IF _IS_WINDOWS THEN "C:\\site\\cxx_builder" ELSE "/site/cxx_builder"

\* The policy toggles of torch._inductor.config that the composition reads.
Configs ==
    [debug_compile : BOOLEAN, enable_unsafe_math_opt_flag : BOOLEAN,
     enable_debug_info : BOOLEAN, enable_ptxas_info : BOOLEAN,
     use_fast_math : BOOLEAN, enable_cuda_lto : BOOLEAN]

\* The toggles read when no CUDA option is composed: the CUDA ones are not read.
HostConfigs ==
    { c \in Configs : ~c.enable_debug_info /\ ~c.enable_ptxas_info
                      /\ ~c.use_fast_math /\ ~c.enable_cuda_lto }

\* ------------------------------------------------------- option functions

\* _get_cxx_compiler(): CXX (default cl) on Windows, cpp_compiler() elsewhere.
_get_cxx_compiler == env.cxx

\* _nonduplicate_append(dest_list, src_list): each item of src_list, in order,
\* is appended to dest_list unless dest_list already holds it.
\* Faulty variant of _nonduplicate_append: the membership test is left out and
\* every entry is appended.
_nonduplicate_append_unchecked(dest_list, src_list) == dest_list \o src_list

\* Faulty variant of _nonduplicate_append: an entry is compared with the last
\* entry of the list only, so only adjacent repetitions are suppressed.
RECURSIVE _nonduplicate_append_adjacent(_, _)
_nonduplicate_append_adjacent(dest_list, src_list) ==
    IF src_list = <<>> THEN dest_list
    ELSE _nonduplicate_append_adjacent(
             IF dest_list # <<>> /\ dest_list[Len(dest_list)] = Head(src_list)
             THEN dest_list
             ELSE Append(dest_list, Head(src_list)),
             Tail(src_list))

RECURSIVE _nonduplicate_append(_, _)
_nonduplicate_append(dest_list, src_list) ==
    IF src_list = <<>> THEN dest_list
    ELSE _nonduplicate_append(
             IF InList(Head(src_list), dest_list) THEN dest_list
             ELSE Append(dest_list, Head(src_list)),
             Tail(src_list))

\* is_clang(cpp_compiler): re.search("(clang|clang\+\+)", cpp_compiler)
is_clang(cpp_compiler) == Contains(cpp_compiler, "clang")

\* is_apple_clang(cpp_compiler): the first line of `<compiler> --version`
is_apple_clang(cpp_compiler) == env.apple_clang

get_warning_all_flag(warning_all) ==
    IF ~_IS_WINDOWS THEN (IF warning_all THEN <<"Wall">> ELSE <<>>) ELSE <<>>

get_cxx_std(std_num) ==
    IF _IS_WINDOWS THEN <<"std:" \o std_num>> ELSE <<"std=" \o std_num>>

get_linux_cpp_cflags(cpp_compiler) ==
    IF ~_IS_WINDOWS
    THEN <<"Wno-unused-variable", "Wno-unknown-pragmas">>
         \o (IF is_clang(cpp_compiler)
             THEN <<"Werror=ignored-optimization-argument">> ELSE <<>>)
    ELSE <<>>

optimization_cflags(config) ==
    IF _IS_WINDOWS THEN <<"O2">>
    ELSE LET cflags ==
                 (IF config.debug_compile THEN <<"O0", "g">> ELSE <<"O3", "DNDEBUG">>)
                 \o <<"ffast-math", "fno-finite-math-only">>
                 \o (IF ~config.enable_unsafe_math_opt_flag
                     THEN <<"fno-unsafe-math-optimizations">> ELSE <<>>)
         IN  IF env.fbcode THEN cflags
             ELSE IF env.platform = "darwin" THEN Append(cflags, "Xclang")
             ELSE IF env.machine = "ppc64le" THEN Append(cflags, "mcpu=native")
             ELSE Append(cflags, "march=native")

_get_shared_cflag == IF _IS_WINDOWS THEN <<"DLL">> ELSE <<"shared", "fPIC">>

get_glibcxx_abi_build_flags == <<"-D_GLIBCXX_USE_CXX11_ABI=" \o "1">>

get_torch_cpp_wrapper_defination == <<"TORCH_INDUCTOR_CPP_WRAPPER">>

use_custom_generated_macros == <<" C10_USING_CUSTOM_GENERATED_MACROS">>

use_fb_internal_macros ==
    IF ~_IS_WINDOWS /\ env.fbcode
    THEN <<Join(<<"-D C10_USE_GLOG", "-D C10_USE_MINIMAL_GLOG",
                  "-D C10_DISABLE_TENSORIMPL_EXTENSIBILITY">>, " ")>>
    ELSE <<>>

use_standard_sys_dir_headers ==
    IF _IS_WINDOWS THEN <<>> ELSE IF env.fbcode THEN <<"nostdinc">> ELSE <<>>

get_build_args_of_chosen_isa ==
    [macros |-> <<"CPU_CAPABILITY=" \o ChosenIsaCap, "CPU_CAPABILITY_" \o ChosenIsaCap,
                  "HAVE_" \o ChosenIsaCap \o "_CPU_DEFINITION">>,
     build_flags |-> <<ChosenIsaArchFlags>>]

get_torch_related_args ==
    [include_dirs |->
        <<PathJoin(TORCH_PATH, "include"),
          PathJoin(PathJoin(PathJoin(PathJoin(PathJoin(TORCH_PATH, "include"),
              "torch"), "csrc"), "api"), "include"),
          PathJoin(PathJoin(TORCH_PATH, "include"), "TH"),
          PathJoin(PathJoin(TORCH_PATH, "include"), "THC")>>,
     libraries_dirs |-> <<TORCH_LIB_PATH>>,
     libraries |-> <<"torch", "torch_cpu", "c10">>]

get_python_related_args ==
    [python_include_dirs |-> <<PathJoin(PythonPrefix, "include")>>,
     python_lib_path |->
        IF _IS_WINDOWS THEN <<PathJoin(PythonPrefix, "libs")>>
        ELSE <<PathJoin(PythonPrefix, "lib")>>]

get_openmp_args(cpp_compiler) ==
    IF _IS_MACOS
    THEN LET avail0 == ~is_apple_clang(cpp_compiler)
             has_prefix == env.omp_prefix # "unset"
             valid_env == env.omp_prefix = "valid"
             inc1 == IF has_prefix /\ valid_env
                     THEN <<PathJoin(OmpPrefix, "include")>> ELSE <<>>
             lib1 == IF has_prefix /\ valid_env
                     THEN <<PathJoin(OmpPrefix, "lib")>> ELSE <<>>
             avail1 == IF has_prefix THEN avail0 \/ valid_env ELSE avail0
             libs1 == IF ~avail1 THEN <<"omp">> ELSE <<>>
             try_conda == ~avail1 /\ env.conda # "unset"
             conda_ok == env.conda \in {"present", "present_iomp5"}
             avail2 == IF try_conda THEN conda_ok ELSE avail1
             inc2 == IF try_conda /\ conda_ok
                     THEN Append(inc1, PathJoin(CondaPrefix, "include")) ELSE inc1
             lib2 == IF try_conda /\ conda_ok
                     THEN Append(lib1, PathJoin(CondaPrefix, "lib")) ELSE lib1
             libs2 == IF try_conda /\ conda_ok /\ env.machine = "x86_64"
                         /\ env.conda = "present_iomp5"
                      THEN Append(libs1, "iomp5") ELSE libs1
             try_brew == ~avail2
             inc3 == IF try_brew /\ env.brew
                     THEN Append(inc2, PathJoin(HomebrewLibomp, "include")) ELSE inc2
             lib3 == IF try_brew /\ env.brew
                     THEN Append(lib2, PathJoin(HomebrewLibomp, "lib")) ELSE lib2
         IN  [cflags |-> <<>>, ldflags |-> <<>>, include_dir_paths |-> inc3,
              lib_dir_paths |-> lib3, libs |-> libs2]
    ELSE IF _IS_WINDOWS
    THEN [cflags |-> <<"openmp">>, ldflags |-> <<>>, include_dir_paths |-> <<>>,
          lib_dir_paths |-> <<>>, libs |-> <<>>]
    ELSE IF env.fbcode
    THEN [cflags |-> <<>>, ldflags |-> <<>>, include_dir_paths |-> <<>>,
          lib_dir_paths |-> <<>>, libs |-> <<"omp">>]
    ELSE IF is_clang(cpp_compiler)
    THEN [cflags |-> <<"fopenmp">>, ldflags |-> <<>>, include_dir_paths |-> <<>>,
          lib_dir_paths |-> <<>>, libs |-> <<"gomp">>]
    ELSE [cflags |-> <<"fopenmp">>, ldflags |-> <<>>, include_dir_paths |-> <<>>,
          lib_dir_paths |-> <<>>, libs |-> <<"gomp">>]

\* _cuda_compiler(): config.cuda.cuda_cxx, else CUDACXX, else CUDA_HOME/bin/nvcc,
\* else the literal nvcc.
_cuda_compiler ==
    IF env.cuda_cxx_exists THEN "/opt/cuda_cxx/nvcc"
    ELSE IF env.CUDACXX_exists THEN "/env/cudacxx/nvcc"
    ELSE IF env.CUDA_HOME_exists THEN PathJoin(CudaHome, "bin/nvcc")
    ELSE "nvcc"

\* get_torch_cuda_args(): raises NotImplementedError unless _IS_LINUX.
get_torch_cuda_args ==
    [raised |-> IF _IS_LINUX THEN "none" ELSE "NotImplementedError",
     cuda_include_dirs |->
        <<PathJoin(CutlassDir, "include"), PathJoin(CutlassDir, "tools/library/include"),
          PathJoin(CutlassDir, "tools/library/src"),
          PathJoin(CutlassDir, "tools/util/include")>>,
     cuda_libs |-> IF _IS_LINUX THEN <<"cuda", "cudart">> ELSE <<>>,
     cuda_lib_dirs |->
        IF _IS_LINUX
        THEN <<PathJoin(CudaHome, "lib64"), PathJoin(PathJoin(CudaHome, "lib64"), "stubs")>>
        ELSE <<>>]

get_nvcc_host_compiler_options ==
    IF ~_IS_WINDOWS
    THEN <<"fPIC", "fno-strict-aliasing", "fvisibility=hidden", "Wconversion">>
    ELSE <<>>

\* get_nvcc_compiler_options(): raises NotImplementedError on Windows.
get_nvcc_compiler_options(config) ==
    LET arch == IF env.cuda_arch = "90" THEN "90a" ELSE env.cuda_arch
        code == <<"sm_" \o arch, "compute_" \o arch>>
                \o (IF config.enable_cuda_lto THEN <<"lto_" \o arch>> ELSE <<>>)
    IN  [raised |-> IF ~_IS_WINDOWS THEN "none" ELSE "NotImplementedError",
         cuda_cflags |->
            <<"t=0">>
            \o (IF config.enable_debug_info THEN <<"lineinfo", "g">> ELSE <<>>),
         cuda_defines |->
            <<"CUTLASS_ENABLE_TENSOR_CORE_MMA=1">>
            \o (IF config.enable_debug_info
                THEN <<"CUTLASS_DEBUG_TRACE_LEVEL=1">> ELSE <<>>)
            \o (IF config.use_fast_math
                THEN <<"CUTLASS_USE_TANH_FOR_SIGMOID=1">> ELSE <<>>),
         cuda_pass_args |->
            <<"-w",
              "-gencode=arch=compute_" \o arch \o ",code=[" \o Join(code, ",") \o "]",
              CompileOptLevel, "--expt-relaxed-constexpr">>
            \o (IF config.enable_ptxas_info
                THEN <<"--keep", "--ptxas-options=--warn-on-local-memory-usage",
                       "--ptxas-options=--warn-on-spills", "--resource-usage",
                       "--source-in-ptx">>
                ELSE <<>>)
            \o (IF config.use_fast_math THEN <<"--use_fast_math">> ELSE <<>>)]

\* --------------------------------------------------------- option classes

\* BuildOptionsBase: the class attributes _definations ... _passthough_args,
\* each an empty list when the class body has run.
BuildOptionsBase ==
    [_definations |-> <<>>, _include_dirs |-> <<>>, _cflags |-> <<>>,
     _ldflags |-> <<>>, _libraries_dirs |-> <<>>, _libraries |-> <<>>,
     _passthough_args |-> <<>>]

ListNames ==
    {"_definations", "_include_dirs", "_cflags", "_ldflags", "_libraries_dirs",
     "_libraries", "_passthough_args"}

\* _nonduplicate_append(self.<attr>, src_list): self.<attr> is looked up on the
\* class, so the list that grows is the class-level one.
AppendTo(L, attr, src_list) ==
    [L EXCEPT ![attr] = _nonduplicate_append(@, src_list)]

\* A constructor's calls of _nonduplicate_append, in the order it makes them:
\* steps is the sequence of <<attribute, src_list>> of the calls.
RECURSIVE AppendAll(_, _)
AppendAll(L, steps) ==
    IF steps = <<>> THEN L
    ELSE AppendAll(AppendTo(L, Head(steps)[1], Head(steps)[2]), Tail(steps))

\* CxxOptions.__init__: the lists after it has run on lists L.
CxxOptions__init__(L, config) ==
    AppendAll(L,
        << <<"_cflags", _get_shared_cflag>>,
           <<"_cflags", optimization_cflags(config)>>,
           <<"_cflags", get_warning_all_flag(FALSE)>>,
           <<"_cflags", get_cxx_std("c++17")>>,
           <<"_cflags", get_linux_cpp_cflags(_get_cxx_compiler)>> >>)

\* CxxTorchOptions.__init__
CxxTorchOptions__init__(L, config) ==
    AppendAll(CxxOptions__init__(L, config),
        << <<"_definations", get_torch_cpp_wrapper_defination>>,
           <<"_definations", use_custom_generated_macros>>,
           <<"_cflags", use_standard_sys_dir_headers>>,
           <<"_definations", get_build_args_of_chosen_isa.macros>>,
           <<"_passthough_args", get_build_args_of_chosen_isa.build_flags>>,
           <<"_include_dirs", get_torch_related_args.include_dirs>>,
           <<"_libraries_dirs", get_torch_related_args.libraries_dirs>>,
           <<"_libraries", get_torch_related_args.libraries>>,
           <<"_include_dirs", get_python_related_args.python_include_dirs>>,
           <<"_libraries_dirs", get_python_related_args.python_lib_path>>,
           <<"_cflags", get_openmp_args(_get_cxx_compiler).cflags>>,
           <<"_ldflags", get_openmp_args(_get_cxx_compiler).ldflags>>,
           <<"_include_dirs", get_openmp_args(_get_cxx_compiler).include_dir_paths>>,
           <<"_libraries_dirs", get_openmp_args(_get_cxx_compiler).lib_dir_paths>>,
           <<"_libraries", get_openmp_args(_get_cxx_compiler).libs>> >>
        \o (IF ~_IS_WINDOWS
            THEN << <<"_passthough_args", get_glibcxx_abi_build_flags>>,
                    <<"_passthough_args", use_fb_internal_macros>> >>
            ELSE <<>>))

\* The exception CxxTorchCudaOptions.__init__ ends with, "none" when it
\* returns: get_torch_cuda_args is called first, get_nvcc_compiler_options
\* after it.
CxxTorchCudaOptions__raised(config) ==
    IF get_torch_cuda_args.raised # "none" THEN get_torch_cuda_args.raised
    ELSE get_nvcc_compiler_options(config).raised

\* CxxTorchCudaOptions.__init__: the lists after it has run, or has raised, on
\* lists L. What it appended before an exception stays appended.
CxxTorchCudaOptions__init__(L, config) ==
    AppendAll(CxxTorchOptions__init__(L, config),
        IF get_torch_cuda_args.raised # "none" THEN <<>>
        ELSE << <<"_include_dirs", get_torch_cuda_args.cuda_include_dirs>>,
                <<"_libraries", get_torch_cuda_args.cuda_libs>>,
                <<"_libraries_dirs", get_torch_cuda_args.cuda_lib_dirs>> >>
             \o (IF get_nvcc_compiler_options(config).raised # "none" THEN <<>>
                 ELSE << <<"_cflags", get_nvcc_host_compiler_options>>,
                         <<"_cflags", get_nvcc_compiler_options(config).cuda_cflags>>,
                         <<"_cflags", get_nvcc_compiler_options(config).cuda_defines>>,
                         <<"_cflags", get_nvcc_compiler_options(config).cuda_pass_args>> >>))

\* The getters of BuildOptionsBase on the instance options[i]: _compiler is an
\* instance attribute, the lists are the class attributes.

\* Faulty variant of get_compiler: _compiler is kept on the class like the
\* lists, so every instance returns what the last constructor has set.
get_compiler_of_class(i) == options[Len(options)].compiler

get_compiler(i) == options[i].compiler
get_definations(i) == lists._definations
get_include_dirs(i) == lists._include_dirs
get_cflags(i) == lists._cflags
get_ldflags(i) == lists._ldflags
get_libraries_dirs(i) == lists._libraries_dirs
get_libraries(i) == lists._libraries
get_passthough_args(i) == lists._passthough_args

\* The option sets that exist: the constructor calls that returned.
Instances == {i \in 1..Len(options) : options[i].raised = "none"}

\* ----------------------------------------------------------------- actions

\* The hosts the whole program is run on: Linux with gcc, Linux with clang in
\* the fbcode build, macOS with Apple clang, Windows.
BuildHosts ==
    { h \in Hosts :
        \/ h.platform = "linux" /\ h.machine = "x86_64" /\ h.cxx = "g++"
        \/ h.platform = "linux" /\ h.fbcode
        \/ h.platform = "darwin" /\ h.brew
        \/ h.platform = "win32" }

InitOn(hosts) ==
    /\ env \in hosts
    /\ lists = BuildOptionsBase
    /\ options = <<>>
    /\ builders = <<>>
    /\ fs = Ancestors(ModuleDir)
    /\ runs = 0

InitCompose == InitOn(Hosts)
Init == InitOn(BuildHosts)

\* The toggle combinations a composition is tried under: every combination
\* of debug_compile and enable_unsafe_math_opt_flag for the host option sets;
\* for the CUDA option set (on Linux, where its toggles are read) each CUDA
\* toggle alone, none and all of them, under the default and the all-on host
\* toggles.
CudaConfigs ==
    IF ~_IS_LINUX THEN HostConfigs
    ELSE { c \in Configs :
             /\ c.debug_compile = c.enable_unsafe_math_opt_flag
             /\ LET on == {t \in {"enable_debug_info", "enable_ptxas_info",
                                  "use_fast_math", "enable_cuda_lto"} : c[t]}
                IN  Cardinality(on) \in {0, 1, 4} }

\* build() blocks its caller until the compiler subprocess has ended: while a
\* build is running the program makes no other call.
Blocked == \E k \in 1..Len(builders) : builders[k].pc = "running"

\* CxxOptions() under the toggles `config`, in a run of at most `max` compositions
NewCxxOptions(config, max) ==
    /\ ~Blocked
    /\ Len(options) < max
    /\ lists' = CxxOptions__init__(lists, config)
    /\ options' = Append(options,
           [kind |-> "CxxOptions", compiler |-> _get_cxx_compiler,
            config |-> config, raised |-> "none"])
    /\ UNCHANGED <<env, builders, fs, runs>>

\* CxxTorchOptions() under the toggles `config`
NewCxxTorchOptions(config, max) ==
    /\ ~Blocked
    /\ Len(options) < max
    /\ lists' = CxxTorchOptions__init__(lists, config)
    /\ options' = Append(options,
           [kind |-> "CxxTorchOptions", compiler |-> _get_cxx_compiler,
            config |-> config, raised |-> "none"])
    /\ UNCHANGED <<env, builders, fs, runs>>

\* CxxTorchCudaOptions() under the toggles `config`
NewCxxTorchCudaOptions(config, max) ==
    /\ ~Blocked
    /\ Len(options) < max
    /\ lists' = CxxTorchCudaOptions__init__(lists, config)
    /\ options' = Append(options,
           [kind |-> "CxxTorchCudaOptions", compiler |-> _cuda_compiler,
            config |-> config, raised |-> CxxTorchCudaOptions__raised(config)])
    /\ UNCHANGED <<env, builders, fs, runs>>

\* The composer alone: any sequence of option-set constructions.
ComposeCxx == \E config \in HostConfigs : NewCxxOptions(config, MaxOptions)
ComposeTorch == \E config \in HostConfigs : NewCxxTorchOptions(config, MaxOptions)
ComposeCuda == \E config \in CudaConfigs : NewCxxTorchCudaOptions(config, MaxOptions)

NextCompose ==
    \/ ComposeCxx
    \/ ComposeTorch
    \/ ComposeCuda

SpecCompose == InitCompose /\ [][NextCompose]_vars

\* ---------------------------------------------------------------- builder

\* _BUILD_TEMP_DIR
_BUILD_TEMP_DIR == "CxxBuild"

\* Python's None, for output_dir
None == "<None>"

\* CxxBuilder.get_shared_lib_ext
get_shared_lib_ext == IF _IS_WINDOWS THEN ".dll" ELSE ".so"

\* The loops of CxxBuilder.__init__: args += f"{pre}{item}{post}" per item.
RECURSIVE RenderEach(_, _, _)
RenderEach(list, pre, post) ==
    IF list = <<>> THEN ""
    ELSE pre \o Head(list) \o post \o RenderEach(Tail(list), pre, post)

render_cflags(list) ==
    IF _IS_WINDOWS THEN RenderEach(list, "/", " ") ELSE RenderEach(list, "-", " ")
render_definations(list) ==
    IF _IS_WINDOWS THEN RenderEach(list, "/D ", " ") ELSE RenderEach(list, "-D", " ")
render_include_dirs(list) ==
    IF _IS_WINDOWS THEN RenderEach(list, "/I ", " ") ELSE RenderEach(list, "-I", " ")
render_ldflags(list) ==
    IF _IS_WINDOWS THEN RenderEach(list, "/", " ") ELSE RenderEach(list, "-", " ")
render_libraries_dirs(list) ==
    IF _IS_WINDOWS THEN RenderEach(list, "/LIBPATH:\"", "\" ")
    ELSE RenderEach(list, "-L", " ")
\* Faulty variant of render_libraries: the Windows branch is left out.
render_libraries_unix_only(list) == RenderEach(list, "-l", " ")

render_libraries(list) ==
    IF _IS_WINDOWS THEN RenderEach(list, "\"", ".lib\" ") ELSE RenderEach(list, "-l", " ")
render_passthough_args(list) == RenderEach(list, "", " ")

NoResult ==
    [outcome |-> "none", exc |-> "", cmd_line |-> "", output |-> "",
     status |-> [type |-> "none", value |-> ""], path |-> ""]

\* CxxBuilder.__init__(name, sources, BuildOption = options[i], output_dir)
CxxBuilder__init__(name, sources, i, output_dir) ==
    LET dir == IF output_dir = None THEN ModuleDir ELSE output_dir
    IN  [_name |-> name,
         _sources_args |-> Join(sources, " "),
         _output_dir |-> dir,
         _target_file |-> PathJoin(dir, name \o get_shared_lib_ext),
         _compiler |-> get_compiler(i),
         _cflags_args |-> render_cflags(get_cflags(i)),
         _definations_args |-> render_definations(get_definations(i)),
         _include_dirs_args |-> render_include_dirs(get_include_dirs(i)),
         _ldflags_args |-> render_ldflags(get_ldflags(i)),
         _libraries_dirs_args |-> render_libraries_dirs(get_libraries_dirs(i)),
         _libraries_args |-> render_libraries(get_libraries(i)),
         _passthough_parameters_args |-> render_passthough_args(get_passthough_args(i)),
         \* what the model keeps beside the attributes: the arguments of the
         \* call, the position of build(), the captured subprocess output and
         \* what the last build() returned or raised
         sources |-> sources, arg_output_dir |-> output_dir, option |-> i,
         pc |-> "idle", calls |-> 0, invocations |-> 0,
         captured |-> "", result |-> NoResult]

\* format_build_command of CxxBuilder.get_command_line
\* Faulty variant of format_build_command: on Unix the segments are written in
\* the order of the parameters, include directories before definitions and
\* pass-through arguments last.
format_build_command_parameter_order(compiler, sources, include_dirs_args, definations_args, cflags_args, ldflags_args, libraries_args, libraries_dirs_args, passthougn_args, target_file) ==
    IF _IS_WINDOWS
    THEN Replace(compiler \o " " \o include_dirs_args \o " " \o definations_args
                 \o " " \o cflags_args \o " " \o sources \o " " \o passthougn_args
                 \o " /LD /Fe" \o target_file \o " /link " \o libraries_dirs_args
                 \o " " \o libraries_args \o " " \o ldflags_args \o " ",
                 "\\", "/")
    ELSE compiler \o " " \o sources \o " " \o include_dirs_args \o " "
         \o definations_args \o " " \o cflags_args \o " " \o ldflags_args
         \o " " \o libraries_args \o " " \o libraries_dirs_args \o " "
         \o passthougn_args \o " -o " \o target_file

format_build_command(compiler, sources, include_dirs_args, definations_args, cflags_args, ldflags_args, libraries_args, libraries_dirs_args, passthougn_args, target_file) ==
    IF _IS_WINDOWS
    THEN Replace(compiler \o " " \o include_dirs_args \o " " \o definations_args
                 \o " " \o cflags_args \o " " \o sources \o " " \o passthougn_args
                 \o " /LD /Fe" \o target_file \o " /link " \o libraries_dirs_args
                 \o " " \o libraries_args \o " " \o ldflags_args \o " ",
                 "\\", "/")
    ELSE compiler \o " " \o sources \o " " \o definations_args \o " " \o cflags_args
         \o " " \o include_dirs_args \o " " \o passthougn_args \o " " \o ldflags_args
         \o " " \o libraries_args \o " " \o libraries_dirs_args \o " -o " \o target_file

\* Faulty variant of get_command_line: the target file is read from the class,
\* where the builder constructed last has left its own.
get_command_line_class_target(b) ==
    format_build_command(b._compiler, b._sources_args, b._include_dirs_args,
                         b._definations_args, b._cflags_args, b._ldflags_args,
                         b._libraries_args, b._libraries_dirs_args,
                         b._passthough_parameters_args,
                         builders[Len(builders)]._target_file)

\* CxxBuilder.get_command_line on the builder record b
get_command_line(b) ==
    format_build_command(b._compiler, b._sources_args, b._include_dirs_args,
                         b._definations_args, b._cflags_args, b._ldflags_args,
                         b._libraries_args, b._libraries_dirs_args,
                         b._passthough_parameters_args, b._target_file)

\* CxxBuilder.get_target_file_path
get_target_file_path(b) == b._target_file

\* shlex.split(cmd_line): split on blanks outside double quotes, the quotes
\* dropped (the command holds no backslash and no single quote).
\* TokenEnd: the position behind the token that starts at i.
RECURSIVE TokenEnd(_, _, _)
TokenEnd(s, i, inq) ==
    IF i > Len(s) THEN i
    ELSE IF SubSeq(s, i, i) = "\"" THEN TokenEnd(s, i + 1, ~inq)
    ELSE IF SubSeq(s, i, i) = " " /\ ~inq THEN i
    ELSE TokenEnd(s, i + 1, inq)

RECURSIVE SkipBlanks(_, _)
SkipBlanks(s, i) ==
    IF i <= Len(s) /\ SubSeq(s, i, i) = " " THEN SkipBlanks(s, i + 1) ELSE i

RECURSIVE ShlexFrom(_, _)
ShlexFrom(s, i) ==
    LET start == SkipBlanks(s, i)
        end == TokenEnd(s, start, FALSE)
    IN  IF start > Len(s) THEN <<>>
        ELSE <<Replace(SubSeq(s, start, end - 1), "\"", "")>> \o ShlexFrom(s, end)

shlex_split(s) == ShlexFrom(s, 1)

\* ------------------------------------------------------------- file system

\* os.path.exists(path_dir)
exists(path_dir) == path_dir \in fs

\* Faulty variant of _create_if_dir_not_exist: nothing is created.
_create_if_dir_not_exist_nothing(dirs, path_dir) == dirs

\* _create_if_dir_not_exist(path_dir) on the directories `dirs` when mkdir
\* succeeds: nothing to do when the path exists.
_create_if_dir_not_exist(dirs, path_dir) ==
    IF path_dir \in dirs THEN dirs ELSE dirs \cup Ancestors(path_dir)

\* _remove_dir(path_dir): the directory and all below it are removed.
_remove_dir(dirs, path_dir) ==
    IF path_dir \in dirs
    THEN {d \in dirs : d # path_dir /\ ~StartsWith(d, path_dir \o Sep)}
    ELSE dirs

\* The scratch directory of CxxBuilder.build
_build_tmp_dir(b) == PathJoin(b._output_dir, b._name \o "_" \o _BUILD_TEMP_DIR)

\* --------------------------------------------------------------- the runner

\* The remediation text run_command_line appends (its backquotes written as
\* apostrophes: a TLA+ string cannot hold a backquote).
OpenMPInstruction ==
    "\n\nOpenMP support not found. Please try one of the following solutions:\n"
    \o "(1) Set the 'CXX' environment variable to a compiler other than Apple clang++/g++ "
    \o "that has builtin OpenMP support;\n"
    \o "(2) install OpenMP via conda: 'conda install llvm-openmp';\n"
    \o "(3) install libomp via brew: 'brew install libomp';\n"
    \o "(4) manually setup OpenMP and set the 'OMP_PREFIX' environment variable to point to a path"
    \o " with 'include/omp.h' under it."

\* run_command_line(cmd_line, cwd) when the subprocess ended with `exit` and
\* the combined stdout/stderr text `captured`: what it returns or raises.  The
\* exception keeps the command line; its cmd attribute is CppCompileError_cmd.
\* Faulty variant of run_command_line: the OpenMP instruction is appended on
\* every platform, the test of sys.platform is left out.
run_command_line_any_platform(cmd_line, exit, captured) ==
    LET openmp_problem ==
            Contains(captured, "'omp.h' file not found") \/ Contains(captured, "libomp")
        output == IF openmp_problem THEN captured \o OpenMPInstruction ELSE captured
    IN  IF exit # 0
        THEN [NoResult EXCEPT !.outcome = "raised", !.exc = "CppCompileError",
                              !.cmd_line = cmd_line, !.output = output]
        ELSE [NoResult EXCEPT !.outcome = "returned",
                              !.status = [type |-> "bytes", value |-> captured]]

run_command_line(cmd_line, exit, captured) ==
    LET openmp_problem ==
            Contains(captured, "'omp.h' file not found") \/ Contains(captured, "libomp")
        output ==
            IF openmp_problem /\ env.platform = "darwin"
            THEN captured \o OpenMPInstruction ELSE captured
    IN  IF exit # 0
        THEN [NoResult EXCEPT !.outcome = "raised", !.exc = "CppCompileError",
                              !.cmd_line = cmd_line, !.output = output]
        ELSE [NoResult EXCEPT !.outcome = "returned",
                              !.status = [type |-> "bytes", value |-> captured]]

\* Composing twice: one option set of any kind under any of the toggle
\* combinations, then the same kind again under the same toggles.
ComposeOnce ==
    /\ options = <<>>
    /\ \/ \E config \in HostConfigs : NewCxxOptions(config, 2)
       \/ \E config \in HostConfigs : NewCxxTorchOptions(config, 2)
       \/ \E config \in (IF _IS_LINUX THEN Configs ELSE HostConfigs) :
              NewCxxTorchCudaOptions(config, 2)

ComposeAgain ==
    /\ Len(options) = 1
    /\ \/ options[1].kind = "CxxOptions" /\ NewCxxOptions(options[1].config, 2)
       \/ options[1].kind = "CxxTorchOptions" /\ NewCxxTorchOptions(options[1].config, 2)
       \/ options[1].kind = "CxxTorchCudaOptions"
              /\ NewCxxTorchCudaOptions(options[1].config, 2)

NextTwice ==
    \/ ComposeOnce
    \/ ComposeAgain

SpecTwice == InitCompose /\ [][NextTwice]_vars

\* cmd = shlex.split(cmd_line), the first argument of CppCompileError(cmd, output)
CppCompileError_cmd(r) == shlex_split(r.cmd_line)

\* ------------------------------------------------------- the whole program

\* The toggles the builds are composed under: the defaults (all off) and all on.
BuildConfigs == { c \in Configs : \A t, u \in DOMAIN c : c[t] = c[u] }

\* The (name, sources, output_dir) a builder is constructed with.
BuilderInputs ==
    IF _IS_WINDOWS
    THEN { [name |-> "libfoo", sources |-> <<"a.cpp", "b.cpp">>, output_dir |-> "C:\\out"],
           [name |-> "k", sources |-> <<"k.cpp">>, output_dir |-> ""],
           [name |-> "libfoo", sources |-> <<"a.cpp">>, output_dir |-> None] }
    ELSE { [name |-> "libfoo", sources |-> <<"a.cpp", "b.cpp">>, output_dir |-> "/tmp/out"],
           [name |-> "k", sources |-> <<"k.cu">>, output_dir |-> ""],
           [name |-> "libfoo", sources |-> <<"a.cpp">>, output_dir |-> None] }

\* What the compiler subprocess can end with: its exit status and the text it
\* wrote to stdout and stderr.
Warning == "k.cpp:3:1: warning: unused variable 'x'"
Outcomes ==
    { [exit |-> 0, captured |-> Warning],
      [exit |-> 1, captured |-> Warning \o "\nk.cpp:4:1: error: expected ';'"],
      [exit |-> 1, captured |-> "fatal error: 'omp.h' file not found"],
      [exit |-> 1, captured |-> "ld: library not found: libomp.dylib"] }

\* CxxBuilder(name, sources, options[i], output_dir) with the arguments drawn
\* from `inputs`, in a run of at most `max` builders
NewCxxBuilderFrom(inputs, max) ==
    /\ ~Blocked
    /\ Len(builders) < max
    /\ \E inp \in inputs, i \in Instances :
         builders' = Append(builders,
             CxxBuilder__init__(inp.name, inp.sources, i, inp.output_dir))
    /\ UNCHANGED <<env, lists, options, fs, runs>>

NewCxxBuilder == NewCxxBuilderFrom(BuilderInputs, MaxBuilders)

\* builders[b].build() up to the start of the compiler subprocess: both
\* directories are created, or _create_if_dir_not_exist raises RuntimeError
\* because mkdir failed with an OSError other than EEXIST.
BuildStart ==
    /\ ~Blocked
    /\ runs < MaxRuns
    /\ \E b \in 1..Len(builders), fail \in {"none", "output_dir", "tmp_dir"} :
         LET B == builders[b]
             tmp == _build_tmp_dir(B)
             fs1 == _create_if_dir_not_exist(fs, B._output_dir)
             fs2 == _create_if_dir_not_exist(fs1, tmp)
             RuntimeError ==
                 [NoResult EXCEPT !.outcome = "raised", !.exc = "RuntimeError"]
         IN  \/ /\ fail = "output_dir"
                /\ ~exists(B._output_dir) /\ B._output_dir # ""
                /\ fs' = fs
                /\ builders' = [builders EXCEPT ![b] =
                       [B EXCEPT !.pc = "raised", !.calls = @ + 1, !.captured = "",
                                 !.result = RuntimeError]]
             \/ /\ fail = "tmp_dir"
                /\ tmp \notin fs1
                /\ fs' = fs1
                /\ builders' = [builders EXCEPT ![b] =
                       [B EXCEPT !.pc = "raised", !.calls = @ + 1, !.captured = "",
                                 !.result = RuntimeError]]
             \/ /\ fail = "none"
                /\ fs' = fs2
                /\ builders' = [builders EXCEPT ![b] =
                       [B EXCEPT !.pc = "running", !.calls = @ + 1,
                                 !.invocations = @ + 1, !.captured = "",
                                 !.result = NoResult]]
    /\ runs' = runs + 1
    /\ UNCHANGED <<env, lists, options>>

\* The rest of builders[b].build(): the subprocess ends with one of Outcomes; run_command_line raises, or the scratch directory is
\* removed and (status, target file) is returned.
BuildFinish ==
    \E b \in 1..Len(builders), o \in Outcomes :
        LET B == builders[b]
            captured == o.captured
            r == run_command_line(get_command_line(B), o.exit, captured)
        IN  /\ B.pc = "running"
            /\ IF r.outcome = "raised"
               THEN /\ fs' = fs
                    /\ builders' = [builders EXCEPT ![b] =
                           [B EXCEPT !.pc = "raised", !.captured = captured,
                                     !.result = r]]
               ELSE /\ fs' = _remove_dir(fs, _build_tmp_dir(B))
                    /\ builders' = [builders EXCEPT ![b] =
                           [B EXCEPT !.pc = "returned", !.captured = captured,
                                     !.result = [r EXCEPT !.path = B._target_file]]]
            /\ UNCHANGED <<env, lists, options, runs>>

BuildCxx ==
    \E config \in BuildConfigs \cap HostConfigs : NewCxxOptions(config, MaxBuildOptions)
BuildTorch ==
    \E config \in BuildConfigs \cap HostConfigs : NewCxxTorchOptions(config, MaxBuildOptions)
BuildCuda ==
    \E config \in BuildConfigs \cap CudaConfigs :
        NewCxxTorchCudaOptions(config, MaxBuildOptions)

Next ==
    \/ BuildCxx
    \/ BuildTorch
    \/ BuildCuda
    \/ NewCxxBuilder
    \/ BuildStart
    \/ BuildFinish

Spec == Init /\ [][Next]_vars

\* Several builders side by side: on Linux, with gcc or in the fbcode build
\* with clang, option sets composed under the default toggles, and builders
\* with and without an output directory, constructed and built in any order.
OtherHosts == { h \in BuildHosts : h.platform = "linux" }
InitOthers == InitOn(OtherHosts)
DefaultConfig == CHOOSE c \in Configs : \A t \in DOMAIN c : ~c[t]
OtherInputs == { inp \in BuilderInputs : inp.output_dir # None }
OthersCxx == NewCxxOptions(DefaultConfig, MaxBuildOptions)
OthersTorch == NewCxxTorchOptions(DefaultConfig, MaxBuildOptions)
OthersCuda == NewCxxTorchCudaOptions(DefaultConfig, MaxBuildOptions)
OthersNewCxxBuilder == NewCxxBuilderFrom(OtherInputs, MaxOtherBuilders)

NextOthers ==
    \/ OthersCxx
    \/ OthersTorch
    \/ OthersCuda
    \/ OthersNewCxxBuilder
    \/ BuildStart
    \/ BuildFinish

SpecOthers == InitOthers /\ [][NextOthers]_vars

\* ------------------------------------------------------------------ claims

Range(list) == {list[i] : i \in 1..Len(list)}

\* is_gcc(cpp_compiler): re.search("(gcc|g\+\+)", cpp_compiler)
is_gcc(cpp_compiler) == Contains(cpp_compiler, "gcc") \/ Contains(cpp_compiler, "g++")

\* The entries a CxxOptions composition can add, under any toggles.
BaseCflags ==
    UNION { Range(CxxOptions__init__(BuildOptionsBase, c)._cflags) : c \in HostConfigs }

\* C2: every option set owns its lists, so the lists a CxxOptions instance
\* returns hold only base entries: the compiler flags CxxOptions itself adds,
\* and no definition, include directory, linker flag, library directory,
\* library or pass-through argument, whatever was constructed before or after.
C2_BaseSetOwnsItsLists ==
    \A i \in Instances :
        options[i].kind = "CxxOptions" =>
            /\ Range(get_cflags(i)) \subseteq BaseCflags
            /\ get_definations(i) = <<>>
            /\ get_include_dirs(i) = <<>>
            /\ get_ldflags(i) = <<>>
            /\ get_libraries_dirs(i) = <<>>
            /\ get_libraries(i) = <<>>
            /\ get_passthough_args(i) = <<>>

NoDuplicates(list) ==
    \A i, j \in 1..Len(list) : list[i] = list[j] => i = j

IsPrefix(old, new) == Len(old) <= Len(new) /\ SubSeq(new, 1, Len(old)) = old

C3_Step ==
    \A f \in ListNames : NoDuplicates(lists'[f]) /\ IsPrefix(lists[f], lists'[f])

\* C3: after any sequence of option-set constructions none of the seven lists
\* holds the same string twice, and the entries stand in the order of their
\* first insertion: every construction keeps the entries already there, in
\* place, and adds its new ones behind them.
C3_NoDuplicatesInInsertionOrder == [][C3_Step]_vars

\* C3's case: a second construction, of a CUDA option set whose toggles make
\* it insert "g" twice (debug_compile and the CUDA debug info).
C3_Witness ==
    /\ Len(options) >= 2
    /\ \E i \in Instances :
          /\ i >= 2
          /\ options[i].kind = "CxxTorchCudaOptions"
          /\ options[i].config.debug_compile
          /\ options[i].config.enable_debug_info
    /\ InList("g", lists._cflags)

\* C4: composing the same kind of option set a second time under the same
\* toggles leaves all seven lists as the first composition left them.
C4_ComposeTwiceIsComposeOnce ==
    [][(Len(options) = 1 /\ Len(options') = 2) => lists' = lists]_vars

\* C4's case: a CUDA option set composed twice with every toggle on.
C4_Witness ==
    /\ Len(options) = 2
    /\ options[2] = options[1]
    /\ options[2].kind = "CxxTorchCudaOptions"
    /\ options[2].raised = "none"
    /\ \A t \in DOMAIN options[2].config : options[2].config[t]
    /\ Len(lists._cflags) > 20

\* C5: on Linux with gcc, the compiler flags of every option set composed with
\* debug_compile and enable_unsafe_math_opt_flag off include O3, DNDEBUG,
\* ffast-math, fno-finite-math-only and fno-unsafe-math-optimizations and do
\* not include O0, at any point of a sequence of compositions.
C5_ReleaseFlags ==
    (_IS_LINUX /\ is_gcc(env.cxx) /\ ~is_clang(env.cxx)) =>
        \A i \in Instances :
            (~options[i].config.debug_compile
             /\ ~options[i].config.enable_unsafe_math_opt_flag) =>
                /\ {"O3", "DNDEBUG", "ffast-math", "fno-finite-math-only",
                    "fno-unsafe-math-optimizations"} \subseteq Range(get_cflags(i))
                /\ "O0" \notin Range(get_cflags(i))

\* The builders whose last build() call has ended.
Ended(b) == builders[b].calls > 0 /\ builders[b].pc \in {"returned", "raised"}

\* C1: after a call to build() has ended, with the compiler subprocess having
\* exited with status zero or with a non-zero status, the scratch directory
\* <output_dir>/<name>_CxxBuild of that call no longer exists.
C1_ScratchDirRemoved ==
    \A b \in 1..Len(builders) :
        (Ended(b) /\ builders[b].invocations > 0
         /\ builders[b].result.exc # "RuntimeError") =>
            ~exists(_build_tmp_dir(builders[b]))

\* s holds p as a blank-separated token
HasToken(s, p) == Contains(" " \o s \o " ", " " \o p \o " ")

\* C6: in CUDA mode every pass-through argument get_nvcc_compiler_options
\* returns reaches the rendered command line verbatim, with no prefix added,
\* and every CUTLASS macro it returns as a define is rendered as -D<macro>.
C6_CudaArgsPassThrough ==
    \A b \in 1..Len(builders) :
        LET B == builders[b]
            O == options[B.option]
            n == get_nvcc_compiler_options(O.config)
        IN  (O.kind = "CxxTorchCudaOptions" /\ ~_IS_WINDOWS) =>
                /\ \A k \in 1..Len(n.cuda_pass_args) :
                       HasToken(get_command_line(B), n.cuda_pass_args[k])
                /\ \A k \in 1..Len(n.cuda_defines) :
                       HasToken(get_command_line(B), "-D" \o n.cuda_defines[k])

\* The text run_command_line matches for a missing OpenMP.
OpenMPMissing(text) ==
    Contains(text, "libomp") \/ Contains(text, "'omp.h' file not found")

\* C7: when the compiler subprocess exits with a non-zero status the
\* CppCompileError raised carries the command and the full captured text; on
\* macOS, for a text that holds "libomp" or "'omp.h' file not found",
\* remediation text that holds OMP_PREFIX is appended to it, and on any other
\* platform or text nothing is appended.
C7_CompileErrorCarriesOutput ==
    \A b \in 1..Len(builders) :
        LET B == builders[b]
            r == B.result
        IN  (B.pc = "raised" /\ B.invocations > 0 /\ r.exc # "RuntimeError") =>
                /\ r.exc = "CppCompileError"
                /\ r.cmd_line = get_command_line(B)
                /\ StartsWith(r.output, B.captured)
                /\ IF _IS_MACOS /\ OpenMPMissing(B.captured)
                   THEN Contains(From(r.output, Len(B.captured) + 1), "OMP_PREFIX")
                   ELSE r.output = B.captured

\* C7's case: on macOS a build has failed on a missing libomp, and the error
\* carries the command, compiler first.
C7_Witness ==
    \E b \in 1..Len(builders) :
        /\ _IS_MACOS
        /\ builders[b].pc = "raised"
        /\ builders[b].result.exc = "CppCompileError"
        /\ Contains(builders[b].captured, "libomp")
        /\ Len(builders[b].result.output) > Len(builders[b].captured)
        /\ Head(CppCompileError_cmd(builders[b].result)) = builders[b]._compiler

\* C8: when the compiler subprocess succeeds build() returns a pair of the
\* subprocess exit status, zero, and the artifact path, the file <name>.so
\* (.dll on Windows) in the output directory; on failure it returns no pair.
C8_ReturnsStatusAndPath ==
    \A b \in 1..Len(builders) :
        LET B == builders[b]
            r == B.result
        IN  /\ (B.pc = "returned") =>
                   /\ r.outcome = "returned"
                   /\ r.status.type = "int" /\ r.status.value = 0
                   /\ r.path = get_target_file_path(B)
                   /\ StartsWith(r.path, B._output_dir)
                   /\ EndsWith(r.path, B._name \o get_shared_lib_ext)
            /\ (B.pc = "raised") => r.outcome = "raised"

\* seg is, from position `at` on, one token pre<item>post per item of list,
\* in the order of the list, and nothing else.
RECURSIVE TokenPerItem(_, _, _, _, _)
TokenPerItem(seg, list, pre, post, at) ==
    IF list = <<>> THEN at = Len(seg) + 1
    ELSE LET token == pre \o Head(list) \o post
         IN  /\ SubSeq(seg, at, at + Len(token) - 1) = token
             /\ TokenPerItem(seg, Tail(list), pre, post, at + Len(token))

\* The step that constructs a builder, and the builder it constructs.
BuilderConstructed == Len(builders') = Len(builders) + 1
NewBuilder == builders'[Len(builders')]

\* What C9 states of the step that constructs a builder.
C9_Step ==
    BuilderConstructed =>
        LET B == NewBuilder
            i == B.option
        IN  IF _IS_WINDOWS
            THEN /\ TokenPerItem(B._cflags_args, get_cflags(i), "/", " ", 1)
                 /\ TokenPerItem(B._ldflags_args, get_ldflags(i), "/", " ", 1)
                 /\ shlex_split(B._libraries_args)
                        = [k \in 1..Len(get_libraries(i)) |-> get_libraries(i)[k] \o ".lib"]
            ELSE /\ TokenPerItem(B._cflags_args, get_cflags(i), "-", " ", 1)
                 /\ TokenPerItem(B._ldflags_args, get_ldflags(i), "-", " ", 1)
                 /\ TokenPerItem(B._libraries_args, get_libraries(i), "-l", " ", 1)
                 /\ TokenPerItem(B._include_dirs_args, get_include_dirs(i), "-I", " ", 1)
                 /\ TokenPerItem(B._libraries_dirs_args, get_libraries_dirs(i), "-L", " ", 1)
                 /\ TokenPerItem(B._definations_args, get_definations(i), "-D", " ", 1)

\* C9: a CxxBuilder renders, on Windows, every compiler and linker flag with
\* the prefix / and every library as <name>.lib; on Unix every compiler and
\* linker flag with exactly one - put before it, every library as -l<name>,
\* every include directory as -I<dir>, every library directory as -L<dir> and
\* every definition as -D<name>.
C9_RenderedPerPlatform == [][C9_Step]_vars

\* C9's case: a builder constructed on Windows from an option set with
\* compiler flags and libraries.
C9_Witness ==
    \E b \in 1..Len(builders) :
        /\ _IS_WINDOWS
        /\ Len(get_libraries(builders[b].option)) >= 3
        /\ Len(get_cflags(builders[b].option)) >= 4
        /\ Contains(builders[b]._libraries_args, "torch_cpu.lib")
        /\ StartsWith(builders[b]._cflags_args, "/DLL ")

\* The segments of the Unix command line of builder B, in the order stated.
UnixSegments(B) ==
    <<B._compiler, B._sources_args, B._definations_args, B._cflags_args,
      B._include_dirs_args, B._passthough_parameters_args, B._ldflags_args,
      B._libraries_args, B._libraries_dirs_args>>

\* The output directory of builder B: the one given, the directory of the
\* module when None was given.
GivenOutputDir(B) == IF B.arg_output_dir = None THEN ModuleDir ELSE B.arg_output_dir

\* C10 as stated: on Unix the command line is the segments compiler, sources,
\* definitions, compiler flags, include directories, pass-through arguments,
\* linker flags, libraries, library directories in this order, it ends with
\* -o <output_dir>/<name>.so, and the source paths stand in it as given.
C10_UnixShapeAsStated ==
    ~_IS_WINDOWS =>
        \A b \in 1..Len(builders) :
            LET B == builders[b]
                target == GivenOutputDir(B) \o "/" \o B._name \o ".so"
            IN  /\ get_command_line(B) = Join(UnixSegments(B), " ") \o " -o " \o target
                /\ shlex_split(B._sources_args) = B.sources

\* C10 amended: as stated, but the target after -o is <name>.so alone when the
\* output directory is empty (the default), and <output_dir>/<name>.so when
\* it is not empty.
C10_UnixShape ==
    ~_IS_WINDOWS =>
        \A b \in 1..Len(builders) :
            LET B == builders[b]
                target == IF GivenOutputDir(B) = "" THEN B._name \o ".so"
                          ELSE GivenOutputDir(B) \o "/" \o B._name \o ".so"
            IN  /\ get_command_line(B) = Join(UnixSegments(B), " ") \o " -o " \o target
                /\ shlex_split(B._sources_args) = B.sources

\* C10's case: on Linux, a builder for two sources and an output directory,
\* constructed from a CUDA option set, so that only the linker flags are empty.
C10_Witness ==
    \E b \in 1..Len(builders) :
        /\ _IS_LINUX
        /\ builders[b].sources = <<"a.cpp", "b.cpp">>
        /\ builders[b].arg_output_dir = "/tmp/out"
        /\ options[builders[b].option].kind = "CxxTorchCudaOptions"
        /\ EndsWith(get_command_line(builders[b]), " -o /tmp/out/libfoo.so")
        /\ Contains(get_command_line(builders[b]), " a.cpp b.cpp ")

\* A call of build() on builder b starts in this step.
CallStarts(b) == builders'[b].calls = builders[b].calls + 1

\* The step starts the compiler subprocess of builder b: the runner is
\* running, the subprocess has been invoked once more, and the output
\* directory (the current directory when it is "") and the scratch directory
\* exist.
SubprocessStarted(b) ==
    /\ builders'[b].pc = "running"
    /\ builders'[b].invocations = builders[b].invocations + 1
    /\ builders[b]._output_dir = "" \/ builders[b]._output_dir \in fs'
    /\ _build_tmp_dir(builders[b]) \in fs'

\* The step ends the running call of builder b, with success or failure, and
\* invokes no subprocess.
CallEnds(b) ==
    /\ builders[b].pc = "running"
    /\ builders'[b].pc \in {"returned", "raised"}
    /\ builders'[b].invocations = builders[b].invocations

\* The step leaves the runner of builder b as it is.
RunnerUnchanged(b) ==
    /\ builders'[b].pc = builders[b].pc
    /\ builders'[b].invocations = builders[b].invocations

\* C11 as stated: each call to build() moves the runner from idle (no call
\* running) to running and then to a terminal state, and invokes the compiler
\* subprocess exactly once, with both directories existing before it starts;
\* nothing else moves the runner or invokes the subprocess.
C11_OneInvocationPerCallAsStated ==
    [][\A b \in 1..Len(builders) :
           IF CallStarts(b)
           THEN builders[b].pc # "running" /\ SubprocessStarted(b)
           ELSE CallEnds(b) \/ RunnerUnchanged(b)]_vars

\* C11 amended: as stated, except that a call in which a directory cannot be
\* created ends at once with RuntimeError and invokes no subprocess; so a
\* call invokes the subprocess at most once, and exactly once when it reaches
\* running.
C11_OneInvocationPerCall ==
    [][\A b \in 1..Len(builders) :
           IF CallStarts(b)
           THEN /\ builders[b].pc # "running"
                /\ \/ SubprocessStarted(b)
                   \/ /\ builders'[b].pc = "raised"
                      /\ builders'[b].result.exc = "RuntimeError"
                      /\ builders'[b].invocations = builders[b].invocations
           ELSE CallEnds(b) \/ RunnerUnchanged(b)]_vars

\* C11's case: a call has run the subprocess once, the subprocess has failed
\* and the call has ended with the error, not retried.
C11_Witness ==
    \E b \in 1..Len(builders) :
        /\ builders[b].pc = "raised"
        /\ builders[b].result.exc = "CppCompileError"
        /\ builders[b].calls = 1
        /\ builders[b].invocations = 1
        /\ exists(builders[b]._output_dir)

\* The OpenMP library of a compiler family on Linux: omp for Clang, gomp for
\* GCC.
FamilyOpenMPLibrary(cpp_compiler) == IF is_clang(cpp_compiler) THEN "omp" ELSE "gomp"

\* C12: on Linux outside the Facebook-internal environment the OpenMP library
\* get_openmp_args adds to the libraries depends on the compiler family, gomp
\* for GCC and omp for Clang: it returns that library alone, and the libraries
\* of every Torch option set composed hold it.
C12_OpenMPLibraryByFamily ==
    (_IS_LINUX /\ ~env.fbcode) =>
        \A i \in Instances :
            options[i].kind \in {"CxxTorchOptions", "CxxTorchCudaOptions"} =>
                /\ get_openmp_args(_get_cxx_compiler).libs
                       = <<FamilyOpenMPLibrary(_get_cxx_compiler)>>
                /\ InList(FamilyOpenMPLibrary(_get_cxx_compiler), get_libraries(i))

\* C13: the rendered command of a builder is fixed by the inputs it was
\* constructed with: get_command_line returns the same string on every call,
\* whatever is constructed, composed or built between two calls.
C13_CommandLineFixed ==
    [][\A b \in 1..Len(builders) :
           get_command_line(builders[b])' = get_command_line(builders[b])]_vars

\* C13's case: after a first builder another one, with another command line,
\* has been constructed and built to its end.
C13_Witness ==
    /\ Len(builders) = 2
    /\ builders[1].calls = 0
    /\ builders[2].calls = 1
    /\ builders[2].pc \in {"returned", "raised"}
    /\ builders[2].invocations = 1
    /\ get_command_line(builders[1]) # get_command_line(builders[2])

\* The nvcc-equivalent of the host: config.cuda.cuda_cxx if it exists, else
\* CUDACXX, else CUDA_HOME/bin/nvcc, else the literal nvcc.
NvccEquivalent ==
    IF env.cuda_cxx_exists THEN "/opt/cuda_cxx/nvcc"
    ELSE IF env.CUDACXX_exists THEN "/env/cudacxx/nvcc"
    ELSE IF env.CUDA_HOME_exists THEN CudaHome \o "/bin/nvcc"
    ELSE "nvcc"

\* C14: only a CUDA option set has its compiler swapped: get_compiler of a
\* CxxTorchCudaOptions instance is the nvcc-equivalent of the host, and
\* get_compiler of every CxxOptions and CxxTorchOptions instance is the host
\* C++ compiler, whatever was constructed before or after it.
C14_OnlyCudaSwapsCompiler ==
    \A i \in Instances :
        IF options[i].kind = "CxxTorchCudaOptions"
        THEN get_compiler(i) = NvccEquivalent
        ELSE get_compiler(i) = env.cxx

\* C14's case: a CUDA option set, its compiler taken from CUDACXX, and a host
\* option set constructed after it.
C14_Witness ==
    /\ Len(options) = 2
    /\ Instances = {1, 2}
    /\ options[1].kind = "CxxTorchCudaOptions"
    /\ options[2].kind \in {"CxxOptions", "CxxTorchOptions"}
    /\ ~env.cuda_cxx_exists /\ env.CUDACXX_exists
    /\ get_compiler(1) = "/env/cudacxx/nvcc"
    /\ get_compiler(2) = "clang++"

\* The step is a call of CxxTorchCudaOptions().
CudaComposed ==
    /\ Len(options') = Len(options) + 1
    /\ options'[Len(options')].kind = "CxxTorchCudaOptions"

\* C15: composing a CUDA option set on a host that is not Linux fails with
\* NotImplementedError, and a failed composition adds no entry to any list:
\* the lists every option set returns are after it what they were before it.
C15_FailedCompositionLeavesLists ==
    [][CudaComposed =>
           /\ ~_IS_LINUX => options'[Len(options')].raised = "NotImplementedError"
           /\ options'[Len(options')].raised # "none" => lists' = lists]_vars

====
